---- MODULE Spec2Model ----
(***************************************************************************)
(* The media scripts of kerryback/iita2025 as one state machine.  One run  *)
(* of the model is one run of one script: Init picks the script and its     *)
(* command-line arguments, every action is one stage of that script's      *)
(* main.  Times are whole milliseconds; text is a sequence of one-character *)
(* strings, so that slicing, splitting and parsing are computed as Python   *)
(* computes them.                                                           *)
(***************************************************************************)
EXTENDS Integers, Sequences, FiniteSets, TLC

VARIABLES
    script,     \* which script this process runs
    pc,         \* position in that script's main
    args,       \* parsed command line (clip, gif) or the fixed inputs of the script
    media,      \* duration in seconds of the input video (VideoFileClip.duration)
    subclip,    \* the <<start, end>> handed to the sub-clip call, <<>> before it
    segments,   \* transcription['segments'] once Whisper has returned
    srt,        \* contents of the .srt file, empty while it does not exist
    overlays,   \* the TextClips appended to clips, in order
    files,      \* output files that exist
    trace,      \* the stages that have started, in order, each with the file it works on
    failures,   \* the failures that have happened, in order
    status,     \* exit status of the process: "running", "0" or "1"
    t,          \* timestamp check: the seconds value, in milliseconds
    ts,         \* timestamp check: the formatted string
    back,       \* timestamp check: what parse_srt_time returned
    site        \* create-github-pages: working directory, project and docs/ files,
                \* index.qmd and index-16x9.qmd, quarto runs, what each step returned

vars == <<script, pc, args, media, subclip, segments, srt, overlays, files,
          trace, failures, status, t, ts, back, site>>

----------------------------------------------------------------------------
(* Python text primitives, on sequences of one-character strings.          *)

DigitChars == <<"0", "1", "2", "3", "4", "5", "6", "7", "8", "9">>

IsDigit(c) == \E d \in 1..10 : DigitChars[d] = c

DigitVal(c) == (CHOOSE d \in 1..10 : DigitChars[d] = c) - 1

AllDigits(s) == \A i \in 1..Len(s) : IsDigit(s[i])

\* "%d" % n, n >= 0
RECURSIVE Dec(_)
Dec(n) == IF n < 10 THEN <<DigitChars[n + 1]>>
          ELSE Dec(n \div 10) \o <<DigitChars[(n % 10) + 1]>>

\* "%0wd": s left-padded with zeros to width w
RECURSIVE ZeroPad(_, _)
ZeroPad(s, w) == IF Len(s) >= w THEN s ELSE ZeroPad(<<"0">> \o s, w)

\* value of a string of digits
RECURSIVE DigitsVal(_)
DigitsVal(s) == IF s = <<>> THEN 0
                ELSE 10 * DigitsVal(SubSeq(s, 1, Len(s) - 1)) + DigitVal(s[Len(s)])

\* s[:-n]
DropLast(s, n) == SubSeq(s, 1, Len(s) - n)

\* s.replace(a, b) for single characters a, b
Replace(s, a, b) == [i \in 1..Len(s) |-> IF s[i] = a THEN b ELSE s[i]]

\* s.split(sep), sep not empty: cut at each occurrence, left to right
RECURSIVE SplitFrom(_, _, _)
SplitFrom(s, sep, i) ==
    IF i + Len(sep) - 1 > Len(s) THEN <<s>>
    ELSE IF SubSeq(s, i, i + Len(sep) - 1) = sep
         THEN <<SubSeq(s, 1, i - 1)>> \o SplitFrom(SubSeq(s, i + Len(sep), Len(s)), sep, 1)
         ELSE SplitFrom(s, sep, i + 1)

Split(s, sep) == SplitFrom(s, sep, 1)

IsSpace(c) == c \in {" ", "\n"}

\* s.strip()
RECURSIVE LStrip(_)
LStrip(s) == IF s # <<>> /\ IsSpace(s[1]) THEN LStrip(Tail(s)) ELSE s

RECURSIVE RStrip(_)
RStrip(s) == IF s # <<>> /\ IsSpace(s[Len(s)]) THEN RStrip(DropLast(s, 1)) ELSE s

Strip(s) == LStrip(RStrip(s))

\* sep.join(parts)
RECURSIVE Join(_, _)
Join(parts, sep) == IF parts = <<>> THEN <<>>
                    ELSE IF Len(parts) = 1 THEN parts[1]
                    ELSE parts[1] \o sep \o Join(Tail(parts), sep)

\* The outcome of a call that may raise: the value, or the exception's name
Ok(v) == [err |-> "", v |-> v]

Raise(e) == [err |-> e, v |-> 0]

IsError(x) == x.err # ""

\* int(s): surrounding whitespace is accepted, anything but digits raises
PyInt(s) == LET x == Strip(s)
            IN  IF x # <<>> /\ AllDigits(x) THEN Ok(DigitsVal(x)) ELSE Raise("ValueError")

\* float(s), in milliseconds: digits, optionally a point and up to three more
\* digits (the writers emit exactly three)
PyFloat(s) ==
    LET x == Strip(s)
        p == Split(x, <<".">>)
        whole == p[1]
        frac == IF Len(p) = 2 THEN p[2] ELSE <<>>
    IN  IF /\ Len(p) <= 2
           /\ AllDigits(whole) /\ AllDigits(frac)
           /\ Len(whole) + Len(frac) > 0
           /\ Len(frac) <= 3
        THEN Ok(DigitsVal(whole) * 1000
                + DigitsVal(frac \o [i \in 1..(3 - Len(frac)) |-> "0"]))
        ELSE Raise("ValueError")

----------------------------------------------------------------------------
(* Timestamps.                                                              *)

\* str(timedelta(seconds=ms/1000)): "[D day[s], ]H:MM:SS[.uuuuuu]"
TimedeltaStr(ms) ==
    LET days == ms \div (86400 * 1000)
        secs == (ms % (86400 * 1000)) \div 1000
        us   == (ms % 1000) * 1000
        hh   == secs \div 3600
        mm   == (secs % 3600) \div 60
        ss   == secs % 60
        hms  == Dec(hh) \o <<":">> \o ZeroPad(Dec(mm), 2) \o <<":">> \o ZeroPad(Dec(ss), 2)
        dpre == IF days # 0
                THEN Dec(days) \o <<" ", "d", "a", "y">>
                     \o (IF days # 1 THEN <<"s">> ELSE <<>>) \o <<",", " ">>
                ELSE <<>>
        frac == IF us # 0 THEN <<".">> \o ZeroPad(Dec(us), 6) ELSE <<>>
    IN  dpre \o hms \o frac

\* create_srt_file / create_srt: the start and end strings of a block
FormatTimestamp(ms) ==
    LET cut == Replace(DropLast(TimedeltaStr(ms), 3), ".", ",")
    IN  IF Len(Split(cut, <<":">>)[1]) = 1 THEN <<"0">> \o cut ELSE cut

\* the hours left out of the sum
parse_srt_time_NoHours(time_str) ==
    LET parts == Split(Replace(time_str, ",", "."), <<":">>)
        hours == PyInt(parts[1])
        minutes == PyInt(parts[2])
        seconds == PyFloat(parts[3])
    IN  IF IsError(hours) THEN hours
        ELSE IF Len(parts) < 2 THEN Raise("IndexError")
        ELSE IF IsError(minutes) THEN minutes
        ELSE IF Len(parts) < 3 THEN Raise("IndexError")
        ELSE IF IsError(seconds) THEN seconds
        ELSE Ok(minutes.v * 60 * 1000 + seconds.v)

\* parse_srt_time: milliseconds, or the exception it raises
parse_srt_time(time_str) ==
    LET parts == Split(Replace(time_str, ",", "."), <<":">>)
        hours == PyInt(parts[1])
        minutes == PyInt(parts[2])
        seconds == PyFloat(parts[3])
    IN  IF IsError(hours) THEN hours
        ELSE IF Len(parts) < 2 THEN Raise("IndexError")
        ELSE IF IsError(minutes) THEN minutes
        ELSE IF Len(parts) < 3 THEN Raise("IndexError")
        ELSE IF IsError(seconds) THEN seconds
        ELSE Ok(hours.v * 3600 * 1000 + minutes.v * 60 * 1000 + seconds.v)

\* transcribe_with_ffmpeg_path.create_srt: int((x % 1) * 1000) on the float x.
\* For these of the times the model formats (SegTimes, ArithInputs) the double
\* product falls just below the whole number, and int() truncates it to one
\* millisecond less; for the others it is exact.
TruncatesLow(ms) ==
    ms \in {1001, 59001, 3540002, 3540999, 3541002, 3541999, 3599002, 3599999,
            3600002, 3600999, 3601002, 3601999, 3659002, 3659999, 7140999,
            7141999, 7199999, 356400001, 356400002, 356401001, 356401002,
            356459001, 356459002, 359940001, 359940002, 359941001, 359941002,
            359999001, 359999002}

ArithTimestamp(ms) ==
    LET hh == ms \div (3600 * 1000)
        mm == (ms % (3600 * 1000)) \div (60 * 1000)
        ss == (ms % (60 * 1000)) \div 1000
        ml == IF TruncatesLow(ms) THEN (ms % 1000) - 1 ELSE ms % 1000
    IN  ZeroPad(Dec(hh), 2) \o <<":">> \o ZeroPad(Dec(mm), 2) \o <<":">>
        \o ZeroPad(Dec(ss), 2) \o <<",">> \o ZeroPad(Dec(ml), 3)

----------------------------------------------------------------------------
(* The SRT file: written block by block, read back by the moviepy overlay.  *)

Arrow == <<" ", "-", "-", ">", " ">>

\* one block: f"{i}\n", f"{start} --> {end}\n", f"{text.strip()}\n\n"
SrtBlock(i, start, end, text) ==
    Dec(i) \o <<"\n">> \o start \o Arrow \o end \o <<"\n">> \o Strip(text) \o <<"\n", "\n">>

\* the loop of create_srt_file / create_srt over enumerate(segments, start=1)
RECURSIVE WriteBlocks(_, _)
WriteBlocks(segs, i) ==
    IF i > Len(segs) THEN <<>>
    ELSE SrtBlock(i, FormatTimestamp(segs[i].start), FormatTimestamp(segs[i].end),
                  segs[i].text)
         \o WriteBlocks(segs, i + 1)

Reverse(q) == [i \in 1..Len(q) |-> q[Len(q) + 1 - i]]

\* the blocks written last segment first
create_srt_file_Reversed(segs) == WriteBlocks(Reverse(segs), 1)

create_srt_file(segs) == WriteBlocks(segs, 1)

\* the same loop with the arithmetic timestamps of transcribe_with_ffmpeg_path
RECURSIVE WriteBlocksArith(_, _)
WriteBlocksArith(segs, i) ==
    IF i > Len(segs) THEN <<>>
    ELSE SrtBlock(i, ArithTimestamp(segs[i].start), ArithTimestamp(segs[i].end),
                  segs[i].text)
         \o WriteBlocksArith(segs, i + 1)

\* a segment equal to the one before it is dropped
RECURSIVE Dedup(_)
Dedup(q) == IF Len(q) <= 1 THEN q
            ELSE IF q[1] = q[2] THEN Dedup(Tail(q))
            ELSE <<q[1]>> \o Dedup(Tail(q))

create_srt_arith_Dedup(segs) == WriteBlocksArith(Dedup(segs), 1)

create_srt_arith(segs) == WriteBlocksArith(segs, 1)

\* add_subtitles_to_video, one block of the file: nothing for a block of fewer
\* than three lines, else the subtitle record or the exception raised
ParseBlock(block) ==
    LET lines == Split(block, <<"\n">>)
        tl == Split(lines[2], Arrow)
        st == parse_srt_time(tl[1])
        en == parse_srt_time(tl[2])
    IN  IF Len(lines) < 3 THEN [err |-> "", subs |-> <<>>]
        ELSE IF Len(tl) # 2 THEN [err |-> "ValueError", subs |-> <<>>]
        ELSE IF IsError(st) THEN [err |-> st.err, subs |-> <<>>]
        ELSE IF IsError(en) THEN [err |-> en.err, subs |-> <<>>]
        ELSE [err |-> "",
              subs |-> <<[start |-> st.v, end |-> en.v,
                          text |-> Join(SubSeq(lines, 3, Len(lines)), <<" ">>)]>>]

RECURSIVE ParseBlocks(_, _)
ParseBlocks(blocks, i) ==
    IF i > Len(blocks) THEN [err |-> "", subs |-> <<>>]
    ELSE LET b == ParseBlock(blocks[i])
             rest == ParseBlocks(blocks, i + 1)
         IN  IF b.err # "" THEN b
             ELSE IF rest.err # "" THEN rest
             ELSE [err |-> "", subs |-> b.subs \o rest.subs]

\* add_subtitles_to_video, "Parse SRT file": the subtitles list, or the exception
ParseSrt(content) == ParseBlocks(Split(Strip(content), <<"\n", "\n">>), 1)

\* the TextClip made for one subtitle: set_start(start), set_duration(end - start)
TextClipOf(sub) == [start |-> sub.start, duration |-> sub.end - sub.start,
                    text |-> sub.text]

----------------------------------------------------------------------------
(* create_16x9_version of create-github-pages.py (create-versions.py has   *)
(* the same function).  A .qmd file is a sequence of tokens: words, runs   *)
(* of blanks, "\n"; the regular expressions are matched token by token.    *)

IsWs(tok) == tok \in {" ", "  ", "    ", "\n"}

\* \d+
IsNum(tok) == tok \in {"700", "720", "1050", "1280"}

\* \s*: the first index at or after i that is not whitespace
RECURSIVE WsEnd(_, _)
WsEnd(c, i) == IF i > Len(c) \/ ~IsWs(c[i]) THEN i ELSE WsEnd(c, i + 1)

HasNewline(c, a, b) == \E k \in a..b : c[k] = "\n"

LastNewline(c, a, b) ==
    IF HasNewline(c, a, b)
    THEN CHOOSE k \in a..b : c[k] = "\n" /\ \A m \in (k + 1)..b : c[m] # "\n"
    ELSE 0

\* .*?\n--- : the first "\n" at or after i that "---" follows, 0 when there is none
RECURSIVE FindClose(_, _)
FindClose(c, i) ==
    IF i + 1 > Len(c) THEN 0
    ELSE IF c[i] = "\n" /\ c[i + 1] = "---" THEN i
    ELSE FindClose(c, i + 1)

\* yaml_pattern matched at i: format:\s*\n\s*revealjs:.*?\n--- ; the index of
\* the "\n" that ends group 1, 0 when there is no match at i
yaml_pattern(c, i) ==
    LET j == WsEnd(c, i + 1)
    IN  IF /\ c[i] = "format:"
           /\ j <= Len(c) /\ c[j] = "revealjs:"
           /\ HasNewline(c, i + 1, j - 1)
        THEN FindClose(c, j + 1)
        ELSE 0

\* 'width:' in yaml_content
HasKey(y, key) == \E i \in 1..Len(y) : y[i] = key

\* re.sub(r'width:\s*\d+', 'width: 1280', yaml_content), and the same for height
RECURSIVE SubDim(_, _, _, _)
SubDim(y, key, val, i) ==
    IF i > Len(y) THEN <<>>
    ELSE LET j == WsEnd(y, i + 1)
         IN  IF y[i] = key /\ j <= Len(y) /\ IsNum(y[j])
             THEN <<key, " ", val>> \o SubDim(y, key, val, j + 1)
             ELSE <<y[i]>> \o SubDim(y, key, val, i + 1)

\* replace_format(match), yaml_content being group 1
replace_format(yaml_content) ==
    LET w == IF HasKey(yaml_content, "width:")
             THEN SubDim(yaml_content, "width:", "1280", 1)
             ELSE yaml_content \o <<"\n", "    ", "width:", " ", "1280">>
        h == IF HasKey(w, "height:")
             THEN SubDim(w, "height:", "720", 1)
             ELSE w \o <<"\n", "    ", "height:", " ", "720">>
    IN  h \o <<"\n", "---">>

\* re.sub(yaml_pattern, replace_format, content, flags=re.DOTALL), from index i
RECURSIVE SubYaml(_, _)
SubYaml(c, i) ==
    IF i > Len(c) THEN <<>>
    ELSE LET k == yaml_pattern(c, i)
         IN  IF k # 0
             THEN replace_format(SubSeq(c, i, k - 1)) \o SubYaml(c, k + 2)
             ELSE <<c[i]>> \o SubYaml(c, i + 1)

\* re.sub(revealjs_pattern, r'\1    width: 1280\n    height: 720\n', content),
\* from index i: the two lines go in after the "\n" that ends each match
RECURSIVE revealjs_pattern(_, _)
revealjs_pattern(c, i) ==
    IF i > Len(c) THEN <<>>
    ELSE LET n == LastNewline(c, i + 1, WsEnd(c, i + 1) - 1)
         IN  IF c[i] = "revealjs:" /\ n # 0
             THEN SubSeq(c, i, n)
                  \o <<"    ", "width:", " ", "1280", "\n",
                       "    ", "height:", " ", "720", "\n">>
                  \o revealjs_pattern(c, n + 1)
             ELSE <<c[i]>> \o revealjs_pattern(c, i + 1)

\* create_16x9_version: "if new_content == content"
NoChange(content, new_content) == new_content = content

\* create_16x9_version: what is written to index-16x9.qmd, and whether the
\* fallback ran
create_16x9_version(content) ==
    LET new_content == SubYaml(content, 1)
    IN  IF NoChange(content, new_content)
        THEN [new |-> revealjs_pattern(content, 1), fallback |-> TRUE]
        ELSE [new |-> new_content, fallback |-> FALSE]

----------------------------------------------------------------------------
(* Bounds and inputs.                                                       *)

MaxMedia == 2       \* longest input video, in seconds
MaxStart == 2       \* largest start argument, in seconds
MaxDuration == 2    \* largest duration argument, in seconds
MaxSegs == 2        \* most segments Whisper returns
MaxDays == 1        \* timestamp check: seconds values up to this many days

\* segment times in milliseconds: 0 s, 59.999 s and 1 h 0.5 s
SegTimes == {0, 59999, 3600500}

\* segment text as Whisper gives it, with its leading space
Texts == {<<" ", "a">>}

Segment == {g \in [start : SegTimes, end : SegTimes, text : Texts] : g.start <= g.end}

\* what model.transcribe returns in result['segments']: Whisper's timestamps
\* never decrease, within a segment or from one segment to the next
Transcriptions ==
    {q \in UNION {[1..n -> Segment] : n \in 0..MaxSegs} :
        \A i \in 1..(Len(q) - 1) : q[i].start <= q[i + 1].start}

\* seconds values of the timestamp check, in milliseconds
TimeInputs ==
    {((d * 24 + h) * 3600 + m * 60 + sec) * 1000 + k :
        d \in 0..MaxDays, h \in {0, 1, 10, 23}, m \in {0, 1, 59},
        sec \in {0, 1, 59}, k \in {0, 1, 500, 999}}

\* seconds values of the arithmetic-formatter check, in milliseconds: below 100 h
ArithInputs ==
    {((h * 60 + m) * 60 + sec) * 1000 + k :
        h \in {0, 1, 99}, m \in {0, 59}, sec \in {0, 1, 59}, k \in {0, 1, 2, 500, 999}}

NoArgs == [start |-> 0, duration |-> 0, no_captions |-> FALSE, srt_only |-> FALSE,
           method |-> "", output |-> ""]

ClipArgs == [start : 0..MaxStart, duration : 1..MaxDuration, no_captions : BOOLEAN,
             srt_only : BOOLEAN, method : {"ffmpeg", "moviepy"},
             output : {"output_with_captions.mp4"}]

GifArgs == [start : 0..MaxStart, duration : 1..MaxDuration, no_captions : {FALSE},
            srt_only : {FALSE}, method : {""}, output : {"output.gif"}]

\* index.qmd: the front matter up to the format key, and the slides
Title == <<"---", "\n", "title:", " ", "T", "\n">>

Slides == <<"##", " ", "One", "\n", "---", "\n", "##", " ", "Two", "\n">>

OptLine(key, val) == IF val = "" THEN <<>> ELSE <<"    ", key, " ", val, "\n">>

\* a front matter with a "format: / revealjs:" section
SectionDocs ==
    {Title \o <<"format:", "\n", "  ", "revealjs:", "\n">>
       \o OptLine("theme:", th) \o OptLine("width:", w) \o OptLine("height:", h)
       \o <<"---", "\n">> \o Slides :
        th \in {"", "simple"}, w \in {"", "1050", "1280"}, h \in {"", "700", "720"}}

\* front matters without one: "format: revealjs" on one line, and revealjs as
\* the second of two formats
OtherDocs ==
    {Title \o <<"format:", " ", "revealjs", "\n", "---", "\n">> \o Slides,
     Title \o <<"format:", "\n", "  ", "html:", " ", "default", "\n",
                "  ", "revealjs:", "\n">>
       \o OptLine("theme:", "simple") \o <<"---", "\n">> \o Slides}

Documents == SectionDocs \cup OtherDocs

NoSite == [cwd |-> "", orig |-> "", root |-> {}, docs |-> {}, idx |-> 0,
           content |-> <<>>, out |-> <<>>, fellback |-> FALSE,
           skipped |-> {}, ran |-> <<>>, rets |-> <<>>]

----------------------------------------------------------------------------
(* Bookkeeping shared by the scripts.                                      *)

\* a stage starts: it is appended to the trace with the file it works on
Started(stage, file) == Append(trace, <<stage, file>>)

\* a failure of the stage that has just started
Failed(kind) == Append(failures, [stage |-> trace'[Len(trace')][1], kind |-> kind,
                                  at |-> Len(trace')])

\* the process ends with this exit status
Exit(code) == status' = code /\ pc' = "done"

\* an uncaught exception: traceback, exit status 1
Uncaught(kind) == failures' = Failed(kind) /\ Exit("1")

----------------------------------------------------------------------------
(* The timestamp check: format a seconds value as create_srt_file does,    *)
(* then parse the string with parse_srt_time.                               *)

InitTimestamp ==
    /\ script = "timestamp" /\ pc = "format"
    /\ t \in TimeInputs /\ ts = <<>> /\ back = Ok(0)
    /\ args = NoArgs /\ media = 0 /\ site = NoSite

FormatTime ==
    /\ script = "timestamp" /\ pc = "format"
    /\ ts' = FormatTimestamp(t)
    /\ pc' = "parse"
    /\ UNCHANGED <<script, args, media, subclip, segments, srt, overlays, files,
                   trace, failures, status, t, back, site>>

ParseTime ==
    /\ script = "timestamp" /\ pc = "parse"
    /\ back' = parse_srt_time(ts)
    /\ Exit("0")
    /\ UNCHANGED <<script, args, media, subclip, segments, srt, overlays, files,
                   trace, failures, t, ts, site>>

----------------------------------------------------------------------------
(* The arithmetic-formatter check: format a seconds value as the create_srt *)
(* of transcribe_with_ffmpeg_path does.                                     *)

InitArith ==
    /\ script = "arith" /\ pc = "format"
    /\ t \in ArithInputs /\ ts = <<>> /\ back = Ok(0)
    /\ args = NoArgs /\ media = 0 /\ site = NoSite

FormatArith ==
    /\ script = "arith" /\ pc = "format"
    /\ ts' = ArithTimestamp(t)
    /\ Exit("0")
    /\ UNCHANGED <<script, args, media, subclip, segments, srt, overlays, files,
                   trace, failures, t, back, site>>

----------------------------------------------------------------------------
(* video_clip_with_captions.py                                              *)

Min(a, b) == IF a <= b THEN a ELSE b

FreshRun ==
    /\ subclip = <<>> /\ segments = <<>> /\ srt = <<>> /\ overlays = <<>>
    /\ files = {} /\ trace = <<>> /\ failures = <<>> /\ status = "running"

InitClip ==
    /\ script = "clip" /\ pc = "extract"
    /\ args \in ClipArgs /\ media \in 1..MaxMedia
    /\ t = 0 /\ ts = <<>> /\ back = Ok(0) /\ site = NoSite

\* main: clip_path, which extract_clip returns as extracted_clip
ClipPath == IF args.no_captions THEN args.output ELSE "temp_clip.mp4"

\* a start equal to the duration let through
ClipStartBeyond_Strict(start, D) == start > D

\* extract_clip, "Validate time range": the request is refused
ClipStartBeyond(start, D) == start >= D

\* the end time left unclamped
ClipEndTime_NoClamp(start, duration, D) == start + duration

\* extract_clip: end_time
ClipEndTime(start, duration, D) == Min(start + duration, D)

\* the None that extract_clip returned is ignored and the run goes on
OnExtractNone_Continue ==
    failures' = Failed("start_beyond_duration") /\ pc' = "transcribe" /\ UNCHANGED status

\* main: extract_clip returned None
OnExtractNone == failures' = Failed("start_beyond_duration") /\ Exit("1")

\* the SRT file written before the transcription
AfterStage_SrtFirst(stage) ==
    CASE stage = "extract" -> "srt"
      [] stage = "srt" -> "transcribe"
      [] stage = "transcribe" -> "burn"
      [] stage = "burn" -> "cleanup"

\* main: the stage that follows each stage when the run goes on
AfterStage(stage) ==
    CASE stage = "extract" -> "transcribe"
      [] stage = "transcribe" -> "srt"
      [] stage = "srt" -> "burn"
      [] stage = "burn" -> "cleanup"

\* the --no-captions return taken out: the run goes on to the transcription
ReturnsAfterExtract_Never == FALSE

\* main: "if args.no_captions: ... return"
ReturnsAfterExtract == args.no_captions

\* the --srt-only return taken out: the run goes on to embed the captions
ReturnsAfterSrt_Never == FALSE

\* main: "if args.srt_only: ... return"
ReturnsAfterSrt == args.srt_only

\* main, "Extract the clip": extract_clip, then exit 1 on None, return on --no-captions
ClipExtract ==
    /\ script = "clip" /\ pc = "extract"
    /\ trace' = Started("extract", ClipPath)
    /\ \E outcome \in {"ok", "open_error", "write_error"} :
        IF outcome = "open_error"
        THEN Uncaught("OSError") /\ UNCHANGED <<subclip, files>>
        ELSE IF ClipStartBeyond(args.start, media)
        THEN OnExtractNone /\ UNCHANGED <<subclip, files>>
        ELSE /\ subclip' = <<args.start, ClipEndTime(args.start, args.duration, media)>>
             /\ IF outcome = "write_error"
                THEN Uncaught("OSError") /\ UNCHANGED files
                ELSE /\ files' = files \cup {ClipPath}
                     /\ UNCHANGED failures
                     /\ IF ReturnsAfterExtract
                        THEN Exit("0")
                        ELSE pc' = AfterStage("extract") /\ UNCHANGED status
    /\ UNCHANGED <<script, args, media, segments, srt, overlays, t, ts, back, site>>

\* main, "Transcribe the audio": transcribe_audio(extracted_clip, args.model)
ClipTranscribe ==
    /\ script = "clip" /\ pc = "transcribe"
    /\ trace' = Started("transcribe", ClipPath)
    /\ \/ Uncaught("RuntimeError") /\ UNCHANGED segments
       \/ /\ segments' \in Transcriptions
          /\ pc' = AfterStage("transcribe")
          /\ UNCHANGED <<failures, status>>
    /\ UNCHANGED <<script, args, media, subclip, srt, overlays, files, t, ts, back, site>>

\* main, "Create SRT file": create_srt_file(transcription, "captions.srt"),
\* then return on --srt-only
ClipCreateSrt ==
    /\ script = "clip" /\ pc = "srt"
    /\ trace' = Started("srt", "captions.srt")
    /\ \/ Uncaught("OSError") /\ UNCHANGED <<srt, files>>
       \/ /\ srt' = create_srt_file(segments)
          /\ files' = files \cup {"captions.srt"}
          /\ UNCHANGED failures
          /\ IF ReturnsAfterSrt THEN Exit("0")
             ELSE pc' = AfterStage("srt") /\ UNCHANGED status
    /\ UNCHANGED <<script, args, media, subclip, segments, overlays, t, ts, back, site>>

\* add_subtitles_with_ffmpeg up to the except clause: the ffmpeg run
ClipBurnFfmpeg ==
    /\ script = "clip" /\ pc = "burn" /\ args.method = "ffmpeg"
    /\ trace' = Started("ffmpeg", "captions.srt")
    /\ \E outcome \in {"ok", "CalledProcessError", "FileNotFoundError"} :
        CASE outcome = "ok" ->
                /\ files' = files \cup {args.output}
                /\ pc' = AfterStage("burn")
                /\ UNCHANGED <<failures, status>>
          [] outcome = "CalledProcessError" ->
                /\ failures' = Failed("CalledProcessError")
                /\ pc' = "fallback"
                /\ UNCHANGED <<files, status>>
          [] outcome = "FileNotFoundError" ->
                Uncaught("FileNotFoundError") /\ UNCHANGED files
    /\ UNCHANGED <<script, args, media, subclip, segments, srt, overlays, t, ts, back, site>>

\* add_subtitles_to_video, called by main (--method moviepy) or as the fallback
\* of add_subtitles_with_ffmpeg, with the same video, SRT file and output path
ClipOverlay ==
    /\ script = "clip"
    /\ pc = "fallback" \/ (pc = "burn" /\ args.method = "moviepy")
    /\ trace' = Started("moviepy", "captions.srt")
    /\ \E outcome \in {"ok", "open_error", "write_error"} :
        LET parsed == ParseSrt(srt) IN
        IF outcome = "open_error"
        THEN Uncaught("OSError") /\ UNCHANGED <<overlays, files>>
        ELSE IF parsed.err # ""
        THEN Uncaught(parsed.err) /\ UNCHANGED <<overlays, files>>
        ELSE /\ overlays' = [i \in 1..Len(parsed.subs) |-> TextClipOf(parsed.subs[i])]
             /\ IF outcome = "write_error"
                THEN Uncaught("OSError") /\ UNCHANGED files
                ELSE /\ files' = files \cup {args.output}
                     /\ pc' = AfterStage("burn")
                     /\ UNCHANGED <<failures, status>>
    /\ UNCHANGED <<script, args, media, subclip, segments, srt, t, ts, back, site>>

\* main, "Clean up temp file", and the normal return
ClipCleanup ==
    /\ script = "clip" /\ pc = "cleanup"
    /\ files' = files \ {"temp_clip.mp4"}
    /\ Exit("0")
    /\ UNCHANGED <<script, args, media, subclip, segments, srt, overlays, trace,
                   failures, t, ts, back, site>>

----------------------------------------------------------------------------
(* video_to_gif.py                                                          *)

InitGif ==
    /\ script = "gif" /\ pc = "gif"
    /\ args \in GifArgs /\ media \in 1..MaxMedia
    /\ t = 0 /\ ts = <<>> /\ back = Ok(0) /\ site = NoSite

\* create_gif_from_video, "Validate time range": the request is refused
GifStartBeyond(start, D) == start >= D

\* create_gif_from_video: end_time
GifEndTime(start, duration, D) == Min(start + duration, D)

\* main: create_gif_from_video; every exception ends in sys.exit(1)
GifCreate ==
    /\ script = "gif" /\ pc = "gif"
    /\ trace' = Started("gif", args.output)
    /\ \E outcome \in {"ok", "open_error", "write_error"} :
        IF outcome = "open_error"
        THEN /\ failures' = Failed("Exception") /\ Exit("1")
             /\ UNCHANGED <<subclip, files>>
        ELSE IF GifStartBeyond(args.start, media)
        THEN /\ failures' = Failed("start_beyond_duration") /\ Exit("1")
             /\ UNCHANGED <<subclip, files>>
        ELSE /\ subclip' = <<args.start, GifEndTime(args.start, args.duration, media)>>
             /\ IF outcome = "write_error"
                THEN failures' = Failed("Exception") /\ Exit("1") /\ UNCHANGED files
                ELSE files' = files \cup {args.output} /\ Exit("0") /\ UNCHANGED failures
    /\ UNCHANGED <<script, args, media, segments, srt, overlays, t, ts, back, site>>

----------------------------------------------------------------------------
(* transcribe_and_caption.py                                                *)

InitFixed(name, first) ==
    /\ script = name /\ pc = first
    /\ args = NoArgs /\ media = 0
    /\ t = 0 /\ ts = <<>> /\ back = Ok(0) /\ site = NoSite

\* transcribe_and_caption.create_srt
create_srt_tac(segs) == WriteBlocks(segs, 1)

\* __main__ up to "Step 1": the input check, then transcribe_video
TacTranscribe ==
    /\ script = "tac" /\ pc = "transcribe"
    /\ trace' = Started("transcribe", "columbo_clip.mp4")
    /\ \/ failures' = Failed("missing_input") /\ Exit("1") /\ UNCHANGED segments
       \/ Uncaught("RuntimeError") /\ UNCHANGED segments
       \/ /\ segments' \in Transcriptions
          /\ pc' = "srt"
          /\ UNCHANGED <<failures, status>>
    /\ UNCHANGED <<script, args, media, subclip, srt, overlays, files, t, ts, back, site>>

\* __main__, "Step 2": create_srt(transcription, "columbo_captions.srt")
TacCreateSrt ==
    /\ script = "tac" /\ pc = "srt"
    /\ trace' = Started("srt", "columbo_captions.srt")
    /\ \/ Uncaught("OSError") /\ UNCHANGED <<srt, files>>
       \/ /\ srt' = create_srt_tac(segments)
          /\ files' = files \cup {"columbo_captions.srt"}
          /\ pc' = "burn"
          /\ UNCHANGED <<failures, status>>
    /\ UNCHANGED <<script, args, media, subclip, segments, overlays, t, ts, back, site>>

\* __main__, "Step 3": burn_subtitles_ffmpeg returns the output path or None;
\* either way the script prints a message and ends normally
TacBurn ==
    /\ script = "tac" /\ pc = "burn"
    /\ trace' = Started("ffmpeg", "columbo_captions.srt")
    /\ \E outcome \in {"ok", "ffmpeg_not_found", "nonzero_exit", "Exception"} :
        IF outcome = "ok"
        THEN files' = files \cup {"columbo_with_captions.mp4"} /\ UNCHANGED failures
        ELSE failures' = Failed(outcome) /\ UNCHANGED files
    /\ Exit("0")
    /\ UNCHANGED <<script, args, media, subclip, segments, srt, overlays, t, ts, back, site>>

----------------------------------------------------------------------------
(* extract_audio_and_transcribe.py                                          *)

\* extract_audio_and_transcribe.create_srt
create_srt_eat(segs) == WriteBlocks(segs, 1)

\* add_captions_with_moviepy: the TextClip of one segment
SegmentClipOf(seg) == [start |-> seg.start, duration |-> seg.end - seg.start,
                       text |-> Strip(seg.text)]

\* __main__ up to "Step 1": the input check, then extract_audio
EatExtractAudio ==
    /\ script = "eat" /\ pc = "audio"
    /\ trace' = Started("audio", "columbo_clip.mp4")
    /\ \/ failures' = Failed("missing_input") /\ Exit("1") /\ UNCHANGED files
       \/ Uncaught("OSError") /\ UNCHANGED files
       \/ /\ files' = files \cup {"columbo_audio.wav"}
          /\ pc' = "transcribe"
          /\ UNCHANGED <<failures, status>>
    /\ UNCHANGED <<script, args, media, subclip, segments, srt, overlays, t, ts, back, site>>

\* __main__, "Step 2": transcribe_audio_file(audio_file)
EatTranscribe ==
    /\ script = "eat" /\ pc = "transcribe"
    /\ trace' = Started("transcribe", "columbo_audio.wav")
    /\ \/ Uncaught("RuntimeError") /\ UNCHANGED segments
       \/ /\ segments' \in Transcriptions
          /\ pc' = "srt"
          /\ UNCHANGED <<failures, status>>
    /\ UNCHANGED <<script, args, media, subclip, srt, overlays, files, t, ts, back, site>>

\* __main__, "Step 3": create_srt(transcription, "columbo_captions.srt")
EatCreateSrt ==
    /\ script = "eat" /\ pc = "srt"
    /\ trace' = Started("srt", "columbo_captions.srt")
    /\ \/ Uncaught("OSError") /\ UNCHANGED <<srt, files>>
       \/ /\ srt' = create_srt_eat(segments)
          /\ files' = files \cup {"columbo_captions.srt"}
          /\ pc' = "overlay"
          /\ UNCHANGED <<failures, status>>
    /\ UNCHANGED <<script, args, media, subclip, segments, overlays, t, ts, back, site>>

\* __main__, "Step 4": add_captions_with_moviepy on the transcription itself,
\* then the temporary audio is removed
EatOverlay ==
    /\ script = "eat" /\ pc = "overlay"
    /\ trace' = Started("moviepy", "columbo_clip.mp4")
    /\ \E outcome \in {"ok", "open_error", "write_error"} :
        IF outcome = "open_error"
        THEN Uncaught("OSError") /\ UNCHANGED <<overlays, files>>
        ELSE /\ overlays' = [i \in 1..Len(segments) |-> SegmentClipOf(segments[i])]
             /\ IF outcome = "write_error"
                THEN Uncaught("OSError") /\ UNCHANGED files
                ELSE /\ files' = (files \cup {"columbo_with_captions.mp4"})
                                    \ {"columbo_audio.wav"}
                     /\ Exit("0")
                     /\ UNCHANGED failures
    /\ UNCHANGED <<script, args, media, subclip, segments, srt, t, ts, back, site>>

----------------------------------------------------------------------------
(* transcribe_with_ffmpeg_path.py                                           *)

\* __main__: the input check, then the ffmpeg probe, which prints "[OK]" or a
\* warning and changes nothing
TwfProbe ==
    /\ script = "twf" /\ pc = "probe"
    /\ trace' = Started("probe", "columbo_clip.mp4")
    /\ \/ failures' = Failed("missing_input") /\ Exit("1")
       \/ pc' = "transcribe" /\ UNCHANGED <<failures, status>>
    /\ UNCHANGED <<script, args, media, subclip, segments, srt, overlays, files, t, ts,
                   back, site>>

\* __main__: transcribe_video_directly(video_file)
TwfTranscribe ==
    /\ script = "twf" /\ pc = "transcribe"
    /\ trace' = Started("transcribe", "columbo_clip.mp4")
    /\ \/ Uncaught("RuntimeError") /\ UNCHANGED segments
       \/ /\ segments' \in Transcriptions
          /\ pc' = "srt"
          /\ UNCHANGED <<failures, status>>
    /\ UNCHANGED <<script, args, media, subclip, srt, overlays, files, t, ts, back, site>>

\* __main__, "Create SRT file": create_srt with the arithmetic timestamps; the
\* script ends after it
TwfCreateSrt ==
    /\ script = "twf" /\ pc = "srt"
    /\ trace' = Started("srt", "columbo_captions.srt")
    /\ \/ Uncaught("OSError") /\ UNCHANGED <<srt, files>>
       \/ /\ srt' = create_srt_arith(segments)
          /\ files' = files \cup {"columbo_captions.srt"}
          /\ Exit("0")
          /\ UNCHANGED failures
    /\ UNCHANGED <<script, args, media, subclip, segments, overlays, t, ts, back, site>>

----------------------------------------------------------------------------
(* create-github-pages.py                                                   *)

\* render_presentations: render_configs, with the temporary copy and the page
\* quarto makes of it in docs/
RenderConfigs == <<<<"index.qmd", "slides3x2.qmd", "slides3x2.html">>,
                   <<"index-16x9.qmd", "slides16x9.qmd", "slides16x9.html">>>>

\* the files of the project directory that copy_assets' patterns match
AssetSeq == <<"custom.css", "logo.png">>

\* the project directory a run starts in: which .qmd files exist, and index.qmd
StartSite(present, doc) ==
    [NoSite EXCEPT !.cwd = "project", !.idx = 1,
                   !.root = present \cup {AssetSeq[i] : i \in 1..Len(AssetSeq)},
                   !.content = IF "index.qmd" \in present THEN doc ELSE <<>>]

InitPages ==
    /\ script = "pages" /\ pc = "create_16x9"
    /\ args = NoArgs /\ media = 0
    /\ t = 0 /\ ts = <<>> /\ back = Ok(0)
    /\ \E present \in SUBSET {"index.qmd", "index-16x9.qmd"}, doc \in Documents :
         site = StartSite(present, doc)

\* render_presentations called on its own, in a project directory where either
\* source may be missing; the process ends with 0 when it returns True, 1 when
\* it returns False
InitRender ==
    /\ script = "render" /\ pc = "render"
    /\ args = NoArgs /\ media = 0
    /\ t = 0 /\ ts = <<>> /\ back = Ok(0)
    /\ \E present \in SUBSET {"index.qmd", "index-16x9.qmd"} :
         site = StartSite(present, <<>>)

\* a step of main returned this value
Returned(s, fn, value) == [s EXCEPT !.rets = Append(@, <<fn, value>>)]

\* the landing page written before the assets are copied
AfterStep_LandingFirst(step) ==
    CASE step = "create_16x9" -> "render"
      [] step = "render" -> "landing"
      [] step = "landing" -> "assets"
      [] step = "assets" -> "cname"

\* main: the step that follows each step that returned True
AfterStep(step) ==
    CASE step = "create_16x9" -> "render"
      [] step = "render" -> "assets"
      [] step = "assets" -> "landing"
      [] step = "landing" -> "cname"

\* index-16x9.qmd not written
WritesDeck_Nothing(root) == root

\* create_16x9_version: output_file.write_text
WritesDeck(root) == root \cup {"index-16x9.qmd"}

\* main: create_16x9_version, return 1 when it returns False
PagesCreate16x9 ==
    /\ script = "pages" /\ pc = "create_16x9"
    /\ trace' = Started("create_16x9", "index.qmd")
    /\ IF "index.qmd" \notin site.root
       THEN /\ failures' = Failed("missing_input") /\ Exit("1")
            /\ site' = Returned(site, "create_16x9_version", FALSE)
       ELSE \/ Uncaught("OSError") /\ UNCHANGED site
            \/ /\ LET r == create_16x9_version(site.content)
                  IN  site' = Returned([site EXCEPT !.root = WritesDeck(@),
                                                    !.out = r.new,
                                                    !.fellback = r.fallback],
                                       "create_16x9_version", TRUE)
               /\ pc' = AfterStep("create_16x9")
               /\ UNCHANGED <<failures, status>>
    /\ UNCHANGED <<script, args, media, subclip, segments, srt, overlays, files, t, ts,
                   back>>

\* render_presentations: "return True" after the loop; main goes on to its next
\* step
RenderReturnsTrue(s) ==
    /\ site' = Returned(s, "render_presentations", TRUE)
    /\ IF script = "pages" THEN pc' = AfterStep("render") /\ UNCHANGED status
       ELSE Exit("0")

\* render_presentations: the end of one pass of the loop, s.idx being the next
\* entry of render_configs
AfterPass(s) ==
    IF s.idx > Len(RenderConfigs) THEN RenderReturnsTrue(s)
    ELSE site' = s /\ pc' = "render" /\ UNCHANGED status

\* a missing source taken for a failure
MissingSource_Fails(s, qmd_file) ==
    site' = Returned(s, "render_presentations", FALSE) /\ Exit("1")

\* render_presentations: "Warning: ... not found, skipping..." and continue
MissingSource(s, qmd_file) ==
    AfterPass([s EXCEPT !.skipped = @ \cup {qmd_file}, !.idx = @ + 1])

\* the loop going on to the next deck after a failed render
OnRenderError_Continue(s, kind) ==
    failures' = Failed(kind) /\ AfterPass([s EXCEPT !.idx = @ + 1])

\* render_presentations: the two except clauses, "return False"; main returns 1
OnRenderError(s, kind) ==
    /\ failures' = Failed(kind)
    /\ site' = Returned(s, "render_presentations", FALSE)
    /\ Exit("1")

\* the finally block left out
RenderFinally_None(s, temp_qmd) == s

\* render_presentations: the finally block
RenderFinally(s, temp_qmd) == [s EXCEPT !.cwd = s.orig, !.docs = @ \ {temp_qmd}]

\* render_presentations, the start of one pass of its loop: a missing source is
\* skipped; otherwise the source is copied to docs/ under the target name and
\* the process changes to docs/
PagesRender ==
    /\ script \in {"pages", "render"} /\ pc = "render"
    /\ LET cfg == RenderConfigs[site.idx]
       IN  IF cfg[1] \notin site.root
           THEN /\ MissingSource(site, cfg[1])
                /\ UNCHANGED <<trace, failures>>
           ELSE /\ trace' = Started("render", cfg[1])
                /\ site' = [site EXCEPT !.docs = @ \cup {cfg[2]},
                                        !.orig = site.cwd, !.cwd = "docs"]
                /\ pc' = "quarto"
                /\ UNCHANGED <<failures, status>>
    /\ UNCHANGED <<script, args, media, subclip, segments, srt, overlays, files, t, ts,
                   back>>

\* render_presentations, the rest of the pass: quarto render in docs/, the
\* finally block on every way out, then the next pass or the except clause
PagesQuarto ==
    /\ script \in {"pages", "render"} /\ pc = "quarto"
    /\ trace' = trace
    /\ LET cfg == RenderConfigs[site.idx] IN
       \E outcome \in {"ok", "CalledProcessError", "FileNotFoundError"} :
        LET ran == [site EXCEPT !.ran = Append(@, <<cfg[2], outcome>>)] IN
        IF outcome = "ok"
        THEN /\ AfterPass(RenderFinally([ran EXCEPT !.docs = @ \cup {cfg[3]},
                                                    !.idx = @ + 1], cfg[2]))
             /\ UNCHANGED failures
        ELSE OnRenderError(RenderFinally(ran, cfg[2]), outcome)
    /\ UNCHANGED <<script, args, media, subclip, segments, srt, overlays, files, t, ts,
                   back>>

\* copy_assets: the warnings for the files that could not be copied, in order
RECURSIVE CopyWarnings(_, _, _)
CopyWarnings(failed, i, at) ==
    IF i > Len(AssetSeq) THEN <<>>
    ELSE (IF i \in failed
          THEN <<[stage |-> "copy_assets", kind |-> "copy_warning", at |-> at]>>
          ELSE <<>>)
         \o CopyWarnings(failed, i + 1, at)

\* main: copy_assets, which copies what it can and returns True
PagesCopyAssets ==
    /\ script = "pages" /\ pc = "assets"
    /\ trace' = Started("copy_assets", "docs")
    /\ \E failed \in SUBSET (1..Len(AssetSeq)) :
        /\ site' = Returned([site EXCEPT !.docs = @ \cup
                                {AssetSeq[i] : i \in (1..Len(AssetSeq)) \ failed}],
                             "copy_assets", TRUE)
        /\ failures' = failures \o CopyWarnings(failed, 1, Len(trace'))
    /\ pc' = AfterStep("assets")
    /\ UNCHANGED <<script, args, media, subclip, segments, srt, overlays, files, status,
                   t, ts, back>>

\* main: create_landing_page
PagesLanding ==
    /\ script = "pages" /\ pc = "landing"
    /\ trace' = Started("landing", "index.html")
    /\ \/ Uncaught("OSError") /\ UNCHANGED site
       \/ /\ site' = Returned([site EXCEPT !.docs = @ \cup {"index.html"}],
                               "create_landing_page", TRUE)
          /\ pc' = AfterStep("landing")
          /\ UNCHANGED <<failures, status>>
    /\ UNCHANGED <<script, args, media, subclip, segments, srt, overlays, files, t, ts,
                   back>>

\* main: create_cname_file, then return 0
PagesCname ==
    /\ script = "pages" /\ pc = "cname"
    /\ trace' = Started("cname", "CNAME")
    /\ \/ Uncaught("OSError") /\ UNCHANGED site
       \/ /\ site' = Returned([site EXCEPT !.docs = @ \cup {"CNAME"}],
                               "create_cname_file", TRUE)
          /\ Exit("0")
          /\ UNCHANGED failures
    /\ UNCHANGED <<script, args, media, subclip, segments, srt, overlays, files, t, ts,
                   back>>

----------------------------------------------------------------------------
(* The specification.                                                       *)

Init ==
    /\ FreshRun
    /\ \/ InitTimestamp
       \/ InitArith
       \/ InitClip
       \/ InitGif
       \/ InitFixed("tac", "transcribe")
       \/ InitFixed("eat", "audio")
       \/ InitFixed("twf", "probe")
       \/ InitPages
       \/ InitRender

Next ==
    \/ FormatTime \/ ParseTime \/ FormatArith
    \/ ClipExtract \/ ClipTranscribe \/ ClipCreateSrt \/ ClipBurnFfmpeg \/ ClipOverlay
    \/ ClipCleanup
    \/ GifCreate
    \/ TacTranscribe \/ TacCreateSrt \/ TacBurn
    \/ EatExtractAudio \/ EatTranscribe \/ EatCreateSrt \/ EatOverlay
    \/ TwfProbe \/ TwfTranscribe \/ TwfCreateSrt
    \/ PagesCreate16x9 \/ PagesRender \/ PagesQuarto \/ PagesCopyAssets
    \/ PagesLanding \/ PagesCname

Spec == Init /\ [][Next]_vars

----------------------------------------------------------------------------
(* Properties.                                                              *)

Stages == [i \in 1..Len(trace) |-> trace[i][1]]

HasStage(stage) == \E i \in 1..Len(trace) : trace[i][1] = stage

HasFailure(stage, kind) ==
    \E i \in 1..Len(failures) : failures[i].stage = stage /\ failures[i].kind = kind

\* HH:MM:SS,mmm
IsSrtTimestamp(s) ==
    /\ Len(s) = 12
    /\ \A i \in {1, 2, 4, 5, 7, 8, 10, 11, 12} : IsDigit(s[i])
    /\ s[3] = ":" /\ s[6] = ":" /\ s[9] = ","

\* C1: a seconds value that is a whole number of milliseconds (0, 59.999 and 3600
\* among them), formatted as create_srt_file formats it and parsed back with
\* parse_srt_time, comes back as the same number of seconds.
C1_RoundTrip == (script = "timestamp" /\ pc = "done") => back = Ok(t)

\* C2: the timestamp the timedelta-based writers produce for a non-negative
\* time, whole seconds included, has the shape HH:MM:SS,mmm.
C2_TimestampShape == (script = "timestamp" /\ pc # "format") => IsSrtTimestamp(ts)

\* C3: in extract_clip and create_gif_from_video a request with start < D hands
\* the sub-clip call the end time min(start + duration, D): a request that runs
\* past the end of the media is cut to end at D, it is not refused.
C3_Clamp ==
    script \in {"clip", "gif"} =>
        LET wanted == args.start + args.duration IN
        /\ subclip # <<>> =>
              /\ args.start < media
              /\ subclip[1] = args.start
              /\ subclip[2] <= media
              /\ (wanted <= media => subclip[2] = wanted)
              /\ (wanted > media => subclip[2] = media)
        /\ args.start < media =>
              /\ \A i \in 1..Len(failures) : failures[i].kind # "start_beyond_duration"
              /\ (trace # <<>> /\ failures = <<>>) => subclip # <<>>

C3_Witness ==
    /\ script = "clip" /\ args.start + args.duration > media
    /\ subclip = <<args.start, media>> /\ ClipPath \in files

\* C4: a start time at or beyond the media duration is refused: extract_clip
\* returns None and main exits with status 1, create_gif_from_video exits with
\* status 1; no sub-clip is taken and no output file is written.
C4_StartRejected ==
    (script \in {"clip", "gif"} /\ args.start >= media /\ trace # <<>>) =>
        /\ pc = "done" /\ status = "1"
        /\ subclip = <<>> /\ files = {}
        /\ Len(trace) = 1 /\ Len(failures) = 1
        /\ failures[1].kind \in {"start_beyond_duration", "OSError", "Exception"}

C4_Witness ==
    /\ script = "clip" /\ args.start = media /\ status = "1"
    /\ HasFailure("extract", "start_beyond_duration")

\* C5: whenever the ffmpeg burn-in of add_subtitles_with_ffmpeg fails, the
\* moviepy overlay is attempted next, on the same SRT file.
C5_FallbackOnAnyFailure ==
    (script = "clip" /\ pc = "done"
        /\ \E i \in 1..Len(failures) : failures[i].stage = "ffmpeg") =>
      \E j \in 1..Len(trace) : trace[j] = <<"moviepy", "captions.srt">>

\* the failures the scripts handle instead of ending on them
Handled(f) ==
    \/ script = "clip" /\ f.stage = "ffmpeg" /\ f.kind = "CalledProcessError"
    \/ script = "tac" /\ f.stage = "ffmpeg"
    \/ script = "pages" /\ f.stage = "copy_assets"

IsPrefix(a, b) == Len(a) <= Len(b) /\ SubSeq(b, 1, Len(a)) = a

FullPipeline == script = "clip" /\ ~args.no_captions /\ ~args.srt_only

\* C7: video_clip_with_captions.main without --no-captions and --srt-only runs
\* extract, transcribe, write SRT, burn/overlay in that order, each after the one
\* before it has completed; captions are burned only once captions.srt is
\* written, and only the extracted clip is transcribed.
C7_PipelineOrder ==
    FullPipeline =>
        /\ \/ IsPrefix(Stages, <<"extract", "transcribe", "srt", "ffmpeg", "moviepy">>)
           \/ IsPrefix(Stages, <<"extract", "transcribe", "srt", "moviepy">>)
        /\ Len(trace) >= 2 =>
              /\ trace[1] = <<"extract", "temp_clip.mp4">>
              /\ trace[2][2] = "temp_clip.mp4"
              /\ subclip # <<>>
              /\ "temp_clip.mp4" \in files \/ pc = "done"
        /\ Len(trace) >= 4 =>
              /\ "captions.srt" \in files
              /\ srt = create_srt_file(segments)
              /\ trace[4][2] = "captions.srt"
        /\ (HasStage("moviepy") /\ args.method = "ffmpeg") =>
              HasFailure("ffmpeg", "CalledProcessError")

C7_Witness ==
    /\ FullPipeline /\ status = "0"
    /\ Stages = <<"extract", "transcribe", "srt", "ffmpeg">>
    /\ args.output \in files

\* the records of the blocks of an SRT file that parse, in file order
RECURSIVE RecordsOf(_, _)
RecordsOf(blocks, i) ==
    IF i > Len(blocks) THEN <<>>
    ELSE ParseBlock(blocks[i]).subs \o RecordsOf(blocks, i + 1)

SrtRecords == RecordsOf(Split(Strip(srt), <<"\n", "\n">>), 1)

SrtWritten == \E f \in files : f \in {"captions.srt", "columbo_captions.srt"}

Stamp(ms) == IF script = "twf" THEN ArithTimestamp(ms) ELSE FormatTimestamp(ms)

\* C10: the SRT writers emit one block per segment, in the order given and
\* numbered 1..n: none is dropped, merged or changed, whatever the times and
\* text of its neighbours.
C10_OneBlockPerSegment ==
    SrtWritten =>
        LET lines == Split(srt, <<"\n">>)
            n == Len(segments)
        IN  /\ Len(lines) = 4 * n + 1
            /\ lines[4 * n + 1] = <<>>
            /\ \A i \in 1..n :
                /\ lines[4 * i - 3] = Dec(i)
                /\ lines[4 * i - 2] = Stamp(segments[i].start) \o Arrow
                                        \o Stamp(segments[i].end)
                /\ lines[4 * i - 1] = Strip(segments[i].text)
                /\ lines[4 * i] = <<>>

C10_Witness ==
    /\ script = "twf" /\ SrtWritten
    /\ Len(segments) = 2 /\ segments[1] = segments[2]

\* quarto render ran for this temporary copy in docs/ and succeeded
Rendered(temp_qmd) == \E i \in 1..Len(site.ran) : site.ran[i] = <<temp_qmd, "ok">>

\* C11: whenever create-github-pages.main returns 0, quarto render ran and
\* succeeded for docs/slides3x2.qmd and for docs/slides16x9.qmd, neither deck
\* was skipped, and docs/index.html and docs/CNAME were written after that.
C11_BothDecksBuilt ==
    (script = "pages" /\ status = "0") =>
        /\ site.ran = <<<<"slides3x2.qmd", "ok">>, <<"slides16x9.qmd", "ok">>>>
        /\ site.skipped = {}
        /\ {"slides3x2.html", "slides16x9.html", "index.html", "CNAME"}
              \subseteq site.docs
        /\ Stages = <<"create_16x9", "render", "render", "copy_assets", "landing",
                      "cname">>

C11_Witness ==
    /\ script = "pages" /\ status = "0"
    /\ Rendered("slides3x2.qmd") /\ Rendered("slides16x9.qmd")
    /\ "CNAME" \in site.docs

\* C12: with --no-captions, video_clip_with_captions.main writes the clip to the
\* requested output path and returns: extract is the only stage that ever
\* starts and it works on the output path; nothing is transcribed, no SRT file
\* is written, no captions are embedded, temp_clip.mp4 never exists.
C12_NoCaptions ==
    (script = "clip" /\ args.no_captions) =>
        /\ IsPrefix(trace, <<<<"extract", args.output>>>>)
        /\ segments = <<>> /\ srt = <<>> /\ overlays = <<>>
        /\ files \subseteq {args.output}
        /\ pc \in {"extract", "done"}
        /\ status = "0" => (files = {args.output} /\ subclip # <<>>)
        /\ (pc = "done" /\ failures = <<>>) => status = "0"

C12_Witness ==
    /\ script = "clip" /\ args.no_captions /\ args.srt_only
    /\ status = "0" /\ files = {args.output}

\* C13: with --srt-only and without --no-captions, main extracts the clip to
\* temp_clip.mp4, transcribes it, writes captions.srt and returns: neither the
\* ffmpeg burn-in nor the moviepy overlay starts, and the requested output path
\* is never written.
C13_SrtOnly ==
    (script = "clip" /\ args.srt_only /\ ~args.no_captions) =>
        /\ IsPrefix(Stages, <<"extract", "transcribe", "srt">>)
        /\ ~HasStage("ffmpeg") /\ ~HasStage("moviepy")
        /\ overlays = <<>>
        /\ args.output \notin files
        /\ pc \in {"extract", "transcribe", "srt", "done"}
        /\ status = "0" =>
              /\ Stages = <<"extract", "transcribe", "srt">>
              /\ files = {"temp_clip.mp4", "captions.srt"}
              /\ srt = create_srt_file(segments)
        /\ (pc = "done" /\ failures = <<>>) => status = "0"

C13_Witness ==
    /\ script = "clip" /\ args.srt_only /\ ~args.no_captions
    /\ status = "0" /\ "captions.srt" \in files /\ Len(segments) > 0

\* C20: for a time below 100 hours that is a whole number of milliseconds the
\* arithmetic formatter of transcribe_with_ffmpeg_path.create_srt writes
\* HH:MM:SS,mmm with hours = seconds div 3600, minutes = (seconds mod 3600) div 60,
\* seconds = seconds mod 60 and mmm = the millisecond part of the input, so that
\* the four fields add up to the input.
C20_ArithExact ==
    (script = "arith" /\ pc = "done") =>
        /\ IsSrtTimestamp(ts)
        /\ LET hh == DigitsVal(SubSeq(ts, 1, 2))
               mm == DigitsVal(SubSeq(ts, 4, 5))
               ss == DigitsVal(SubSeq(ts, 7, 8))
               ml == DigitsVal(SubSeq(ts, 10, 12))
               total == t \div 1000
           IN  /\ hh = total \div 3600
               /\ mm = (total % 3600) \div 60 /\ mm \in 0..59
               /\ ss = total % 60 /\ ss \in 0..59
               /\ ml = t % 1000 /\ ml \in 0..999
               /\ ((hh * 60 + mm) * 60 + ss) * 1000 + ml = t

MainSteps == <<"create_16x9_version", "render_presentations", "copy_assets",
               "create_landing_page", "create_cname_file">>

StepNo(stage) ==
    CASE stage = "create_16x9" -> 1
      [] stage = "render" -> 2
      [] stage = "copy_assets" -> 3
      [] stage = "landing" -> 4
      [] stage = "cname" -> 5

\* C14: create-github-pages.main runs create_16x9_version, render_presentations,
\* copy_assets, create_landing_page, create_cname_file in that order, each only
\* after the one before returned True; it returns 1 at the first step that
\* returns False and no later step runs; it returns 0 only when all five
\* returned True.
C14_StepOrder ==
    script = "pages" =>
        LET rets == site.rets
            n == Len(rets)
            stopped == n > 0 /\ ~rets[n][2]
        IN  /\ n <= Len(MainSteps)
            /\ \A i \in 1..n : rets[i][1] = MainSteps[i]
            /\ \A i \in 1..(n - 1) : rets[i][2]
            /\ \A i \in 1..Len(trace) :
                  StepNo(trace[i][1]) <= (IF stopped THEN n ELSE n + 1)
            /\ \A i \in 1..(Len(trace) - 1) :
                  StepNo(trace[i][1]) <= StepNo(trace[i + 1][1])
            /\ stopped => (pc = "done" /\ status = "1")
            /\ status = "0" => (n = Len(MainSteps) /\ \A i \in 1..n : rets[i][2])
            /\ (n = Len(MainSteps) /\ rets[n][2]) => status = "0"

C14_Witness ==
    /\ script = "pages" /\ status = "1"
    /\ site.rets = <<<<"create_16x9_version", TRUE>>, <<"render_presentations", FALSE>>>>
    /\ Stages = <<"create_16x9", "render", "render">>

TempCopies == {RenderConfigs[i][2] : i \in 1..Len(RenderConfigs)}

\* C15: outside a render attempt, and so whenever render_presentations has
\* returned, the working directory is the one the function was called in and no
\* temporary .qmd copy is left in docs/: after a successful render, after a
\* quarto error and after quarto was not found.
C15_Restored ==
    (script \in {"pages", "render"} /\ pc # "quarto") =>
        /\ site.cwd = "project"
        /\ site.docs \cap TempCopies = {}

C15_Witness ==
    /\ script = "render" /\ pc = "done" /\ site.cwd = "project"
    /\ site.ran = <<<<"slides3x2.qmd", "ok">>, <<"slides16x9.qmd", "FileNotFoundError">>>>
    /\ site.docs = {"slides3x2.html"}

RenderReturned == \E i \in 1..Len(site.rets) : site.rets[i][1] = "render_presentations"

RenderResult ==
    site.rets[CHOOSE i \in 1..Len(site.rets) : site.rets[i][1] = "render_presentations"][2]

\* C16: render_presentations stops at the first render that fails: it returns
\* False at once and quarto is not run again; the second deck is rendered only
\* after the first was rendered successfully or skipped.
C16_StopAtFirstFailure ==
    script \in {"pages", "render"} =>
        /\ \A i \in 1..Len(site.ran) :
              site.ran[i][2] # "ok" =>
                  /\ i = Len(site.ran)
                  /\ pc = "done" /\ RenderReturned /\ ~RenderResult
        /\ (\E i \in 1..Len(site.ran) : site.ran[i][1] = "slides16x9.qmd") =>
              \/ site.ran[1] = <<"slides3x2.qmd", "ok">>
              \/ "index.qmd" \in site.skipped /\ Len(site.ran) = 1

C16_Witness ==
    /\ script = "render" /\ pc = "done"
    /\ "index-16x9.qmd" \in site.root
    /\ site.ran = <<<<"slides3x2.qmd", "CalledProcessError">>>>

\* C17: a source .qmd that does not exist is skipped and is no failure: quarto
\* is not run for it, the other file is still rendered, and render_presentations
\* returns False only when a render failed, so True when everything was skipped.
C17_MissingSkipped ==
    script \in {"pages", "render"} =>
        /\ \A i \in 1..Len(RenderConfigs) :
              RenderConfigs[i][1] \in site.skipped =>
                  /\ RenderConfigs[i][1] \notin site.root
                  /\ \A j \in 1..Len(site.ran) : site.ran[j][1] # RenderConfigs[i][2]
        /\ RenderReturned =>
              /\ RenderResult = (\A j \in 1..Len(site.ran) : site.ran[j][2] = "ok")
              /\ RenderResult =>
                    \A i \in 1..Len(RenderConfigs) :
                        \/ RenderConfigs[i][1] \in site.skipped
                        \/ Rendered(RenderConfigs[i][2])
        /\ site.skipped # {} =>
              \A j \in 1..Len(failures) : failures[j].stage = "render"
                                            /\ failures[j].kind # "missing_input"

C17_Witness ==
    /\ script = "render" /\ pc = "done" /\ status = "0"
    /\ site.skipped = {"index.qmd", "index-16x9.qmd"} /\ site.ran = <<>>
    /\ RenderReturned /\ RenderResult

\* a "format: / revealjs:" section: yaml_pattern matches somewhere
HasSection(c) == \E i \in 1..Len(c) : yaml_pattern(c, i) # 0

\* C18: in create_16x9_version the fallback that inserts the width and height
\* lines after the revealjs: line runs only when index.qmd has no
\* "format: / revealjs:" section; it does not run when there is one, one that
\* already says width 1280 and height 720 included.
C18_FallbackOnlyWithoutSection ==
    (script = "pages" /\ site.out # <<>>) =>
        (site.fellback => ~HasSection(site.content))

SectionStart(c) ==
    CHOOSE i \in 1..Len(c) :
        yaml_pattern(c, i) # 0 /\ \A m \in 1..(i - 1) : yaml_pattern(c, m) = 0

\* the section, from format: to the line before the closing ---
SectionOf(c) == SubSeq(c, SectionStart(c), yaml_pattern(c, SectionStart(c)))

Before(c) == SubSeq(c, 1, SectionStart(c) - 1)

After(c) == SubSeq(c, yaml_pattern(c, SectionStart(c)) + 1, Len(c))

\* the key is given once in the section, with this value
GivenOnce(sec, key, val) ==
    /\ Cardinality({i \in 1..Len(sec) : sec[i] = key}) = 1
    /\ \E i \in 1..(Len(sec) - 2) : sec[i] = key /\ sec[i + 1] = " " /\ sec[i + 2] = val

\* C19: when index.qmd has a "format: / revealjs:" section, the section of the
\* index-16x9.qmd that create_16x9_version writes gives width 1280 and height 720,
\* each exactly once, whether index.qmd gave both, one or neither; what is
\* outside the section is copied unchanged.
C19_DimensionsOnce ==
    (script = "pages" /\ site.out # <<>> /\ HasSection(site.content)) =>
        /\ HasSection(site.out)
        /\ GivenOnce(SectionOf(site.out), "width:", "1280")
        /\ GivenOnce(SectionOf(site.out), "height:", "720")
        /\ Before(site.out) = Before(site.content)
        /\ After(site.out) = After(site.content)

====
